---- MODULE Spec2Model ----
(***************************************************************************)
(* Field views of binary-layout (src/fields/primitive/view.rs).            *)
(*                                                                         *)
(* A FieldView binds a storage (a byte buffer) to a field marker F and     *)
(* forwards read / write / try_read / try_write to F.  The field traits,   *)
(* the primitive field implementations and the define_layout! macro live   *)
(* in other files of the crate; they are modelled here from the            *)
(* specification (sections 3, 4.2, 6 and 7) and from the documentation     *)
(* examples of view.rs.                                                    *)
(*                                                                         *)
(* Bytes are naturals 0..255, buffers are sequences of bytes.  Offsets are *)
(* 0-based as in the source; the sequence index of offset o is o + 1.      *)
(***************************************************************************)
EXTENDS Integers, Sequences, FiniteSets, TLC

VARIABLES
    layout,     \* name of the layout the storage is viewed through
    kind,       \* storage kind: "owned", "shared" (&[u8]) or "exclusive" (&mut [u8])
    storage,    \* FieldView.storage: the bytes of the buffer
    initial,    \* the bytes of the buffer when the view was constructed (history)
    view,       \* name of the field the current FieldView is bound to, or "none"
    result      \* outcome of the last operation

vars == <<layout, kind, storage, initial, view, result>>

----------------------------------------------------------------------------
(* Bounds of the model *)

\* largest number of bytes a buffer holds beyond the fixed-size fields
MaxTail == 5

\* buffers shorter than the fixed-size fields: lengths up to MaxShort, and
\* lengths down to MaxShort below the fixed size, are explored
MaxShort == 1

\* largest number of unused bytes after the fields of a layout that has no
\* trailing region
MaxPad == 1

\* number of values a byte takes
ByteRange == 256

\* bytes the initial buffer content is drawn from (all below 128 so that a
\* 32-bit field decodes inside TLC's integer range)
ByteSamples == {0, 127}

\* the bytes the documentation example copies into the trailing region
TailData == <<1, 2, 3, 4, 5>>

----------------------------------------------------------------------------
(* Field types: size in bytes, signedness, restricted domain, capabilities *)

TypeSize(t) ==
    CASE t = "i8" -> 1
      [] t = "u16" -> 2
      [] t = "u32" -> 4
      [] t = "nz_u16" -> 2
      [] t = "nz_i8" -> 1
      [] t = "bytes16" -> 16
      [] t = "tail" -> 0

IsSigned(t) == t \in {"i8", "nz_i8"}

IsNonZero(t) == t \in {"nz_u16", "nz_i8"}

\* infallible integer fields
ImplReadExt(t) == t \in {"i8", "u16", "u32"}

ImplWriteExt(t) == t \in {"i8", "u16", "u32"}

\* restricted-domain fields
ImplCopyAccess(t) == t \in {"nz_u16", "nz_i8"}

\* the trailing open-ended region
ImplSliceAccess(t) == t = "tail"

\* logical values handed to write / try_write (0 is outside the domain of
\* the restricted-domain types)
Values(t) ==
    CASE t = "i8" -> {-128, -1, 10}
      [] t = "u16" -> {4660, 65535}
      [] t = "u32" -> {10, 305419896}
      [] t = "nz_u16" -> {0, 4660, 65280}
      [] t = "nz_i8" -> {0, -1}
      [] OTHER -> {}

Types == {"i8", "u16", "u32", "nz_u16", "nz_i8", "bytes16", "tail"}

AllValues == UNION {Values(t) : t \in Types}

----------------------------------------------------------------------------
(* Layouts: define_layout!(name, endianness, { field: type, ... })         *)

\* the layout with the trailing region declared before something_else
MyLayoutFields_TailEarly ==
    << [name |-> "field_one", type |-> "u16"],
       [name |-> "another_field", type |-> "bytes16"],
       [name |-> "tail", type |-> "tail"] >>

MyLayoutFields ==
    << [name |-> "field_one", type |-> "u16"],
       [name |-> "another_field", type |-> "bytes16"],
       [name |-> "something_else", type |-> "u32"],
       [name |-> "tail", type |-> "tail"] >>

IntLayoutFields ==
    << [name |-> "some_integer_field", type |-> "i8"],
       [name |-> "word", type |-> "u16"] >>

NonZeroLayoutFields ==
    << [name |-> "some_integer_field", type |-> "nz_i8"],
       [name |-> "nonzero_word", type |-> "nz_u16"] >>

Layouts ==
    {"my_layout", "int_layout_le", "int_layout_be",
     "nonzero_layout_le", "nonzero_layout_be"}

LayoutFields(l) ==
    CASE l = "my_layout" -> MyLayoutFields
      [] l \in {"int_layout_le", "int_layout_be"} -> IntLayoutFields
      [] l \in {"nonzero_layout_le", "nonzero_layout_be"} -> NonZeroLayoutFields

LayoutEndian(l) ==
    IF l \in {"int_layout_be", "nonzero_layout_be"} THEN "big" ELSE "little"

HasTail(l) == \E i \in DOMAIN LayoutFields(l) : LayoutFields(l)[i].type = "tail"

\* offset of the i-th field: the sizes of the fields before it
RECURSIVE OffsetAt(_, _)
OffsetAt(fs, i) ==
    IF i <= 1 THEN 0 ELSE OffsetAt(fs, i - 1) + TypeSize(fs[i - 1].type)

\* total size of the fixed-size fields
FixedSize(l) == OffsetAt(LayoutFields(l), Len(LayoutFields(l)) + 1)

FieldNames(l) == {LayoutFields(l)[i].name : i \in DOMAIN LayoutFields(l)}

\* the field metadata: offset, size, byte order and type
FieldOf(l, n) ==
    LET fs == LayoutFields(l)
        i == CHOOSE j \in DOMAIN fs : fs[j].name = n
    IN [name |-> n,
        type |-> fs[i].type,
        offset |-> OffsetAt(fs, i),
        size |-> TypeSize(fs[i].type),
        endian |-> LayoutEndian(l)]

----------------------------------------------------------------------------
(* Byte-order conversions *)

Reverse(s) == [i \in 1..Len(s) |-> s[Len(s) + 1 - i]]

\* from_le_bytes, unsigned
RECURSIVE FromLeBytes(_)
FromLeBytes(bs) ==
    IF Len(bs) = 0 THEN 0 ELSE bs[1] + ByteRange * FromLeBytes(Tail(bs))

\* to_le_bytes of an unsigned value, n bytes
RECURSIVE ToLeBytes(_, _)
ToLeBytes(u, n) ==
    IF n = 0 THEN <<>> ELSE <<u % ByteRange>> \o ToLeBytes(u \div ByteRange, n - 1)

\* 256^n
RECURSIVE Pow256(_)
Pow256(n) == IF n = 0 THEN 1 ELSE ByteRange * Pow256(n - 1)

\* decode the bytes of a field of type t under byte order e
Decode(bs, t, e) ==
    LET u == FromLeBytes(IF e = "big" THEN Reverse(bs) ELSE bs)
        half == Pow256(Len(bs)) \div 2
    IN IF IsSigned(t) /\ u >= half THEN u - half - half ELSE u

\* encode value v as the bytes of a field of type t under byte order e
Encode(v, t, e) ==
    LET n == TypeSize(t)
        u == IF v < 0 THEN v + Pow256(n) ELSE v
        le == ToLeBytes(u, n)
    IN IF e = "big" THEN Reverse(le) ELSE le

\* dst[off .. off+len(src)).copy_from_slice(src)
CopyInto(dst, off, src) ==
    [i \in 1..Len(dst) |->
        IF i > off /\ i <= off + Len(src) THEN src[i - off] ELSE dst[i]]

\* &bytes[off .. off+size]
Slice(bytes, off, size) == SubSeq(bytes, off + 1, off + size)

InBounds(f, bytes) == f.offset + f.size <= Len(bytes)

----------------------------------------------------------------------------
(* Field traits (F::read, F::write, F::try_read, F::try_write)             *)

\* FieldReadExt::read: panics when the slice is out of range
FieldRead(f, bytes) ==
    IF ~InBounds(f, bytes)
    THEN [status |-> "abort", value |-> 0]
    ELSE [status |-> "ok",
          value |-> Decode(Slice(bytes, f.offset, f.size), f.type, f.endian)]

\* FieldWriteExt::write
FieldWrite(f, bytes, v) ==
    IF ~InBounds(f, bytes)
    THEN [status |-> "abort", storage |-> bytes]
    ELSE [status |-> "ok",
          storage |-> CopyInto(bytes, f.offset, Encode(v, f.type, f.endian))]

\* FieldCopyAccess::try_read: decode, then validate the domain
FieldTryRead(f, bytes) ==
    IF ~InBounds(f, bytes)
    THEN [status |-> "abort", value |-> 0]
    ELSE LET v == Decode(Slice(bytes, f.offset, f.size), f.type, f.endian)
         IN IF IsNonZero(f.type) /\ v = 0
            THEN [status |-> "err", value |-> 0]
            ELSE [status |-> "ok", value |-> v]

\* FieldCopyAccess::try_write: validate the domain, then commit the bytes
FieldTryWrite(f, bytes, v) ==
    IF IsNonZero(f.type) /\ v = 0
    THEN [status |-> "err", storage |-> bytes]
    ELSE IF ~InBounds(f, bytes)
    THEN [status |-> "abort", storage |-> bytes]
    ELSE [status |-> "ok",
          storage |-> CopyInto(bytes, f.offset, Encode(v, f.type, f.endian))]

\* FieldSliceAccess::data on the trailing region: &bytes[offset..]
FieldData(f, bytes) ==
    IF f.offset > Len(bytes)
    THEN [status |-> "abort", data |-> <<>>]
    ELSE [status |-> "ok", data |-> SubSeq(bytes, f.offset + 1, Len(bytes))]

\* FieldSliceAccess::data_mut()[..k].copy_from_slice(src), k = len(src)
FieldDataMutCopy(f, bytes, src) ==
    IF f.offset > Len(bytes) \/ Len(src) > Len(bytes) - f.offset
    THEN [status |-> "abort", storage |-> bytes]
    ELSE [status |-> "ok", storage |-> CopyInto(bytes, f.offset, src)]

----------------------------------------------------------------------------
(* FieldView *)

\* S: AsRef<[u8]>
StorageAsRef(k) == k \in {"owned", "shared", "exclusive"}

\* every storage kind hands out a mutable slice
StorageAsMut_Any(k) == k \in {"owned", "shared", "exclusive"}

\* S: AsMut<[u8]>
StorageAsMut(k) == k \in {"owned", "exclusive"}

\* a read that yields a default value where the field does not fit
ViewRead_Lenient(s, f) ==
    IF InBounds(f, s) THEN FieldRead(f, s) ELSE [status |-> "ok", value |-> 0]

\* FieldView::read
ViewRead(s, f) == FieldRead(f, s)

\* a write that never reaches the field
ViewWrite_Dropped(s, f, v) ==
    [status |-> FieldWrite(f, s, v).status, storage |-> s]

\* a write forwarded one byte too far
ViewWrite_Shifted(s, f, v) == FieldWrite([f EXCEPT !.offset = f.offset + 1], s, v)

\* a write that ignores the layout's byte order
ViewWrite_NativeOrder(s, f, v) == FieldWrite([f EXCEPT !.endian = "little"], s, v)

\* FieldView::write
ViewWrite(s, f, v) == FieldWrite(f, s, v)

\* a try_read that skips the domain validation
ViewTryRead_Unchecked(s, f) ==
    LET r == FieldTryRead(f, s)
    IN IF r.status = "err" THEN [status |-> "ok", value |-> 0] ELSE r

\* FieldView::try_read
ViewTryRead(s, f) == FieldTryRead(f, s)

\* a try_write that reports success without forwarding the value
ViewTryWrite_Dropped(s, f, v) ==
    [status |-> FieldTryWrite(f, s, v).status, storage |-> s]

\* a try_write that commits the bytes before the value is validated
ViewTryWrite_CommitFirst(s, f, v) ==
    LET r == FieldTryWrite(f, s, v)
    IN IF r.status = "err" /\ InBounds(f, s)
       THEN [status |-> "err",
             storage |-> CopyInto(s, f.offset, Encode(v, f.type, f.endian))]
       ELSE r

\* FieldView::try_write
ViewTryWrite(s, f, v) == FieldTryWrite(f, s, v)

\* a tail that starts at the beginning of the buffer
ViewTail_Whole(s, f) == FieldData([f EXCEPT !.offset = 0], s)

\* view.tail()
ViewTail(s, f) == FieldData(f, s)

\* view.tail_mut()[..k].copy_from_slice(src)
ViewTailMutCopy(s, f, src) == FieldDataMutCopy(f, s, src)

----------------------------------------------------------------------------
(* State machine *)

NoResult ==
    [op |-> "none", field |-> "none", status |-> "ok",
     value |-> 0, arg |-> 0, data |-> <<>>, pre |-> <<>>]

Res(op, f, status, value, arg, data, pre) ==
    [op |-> op, field |-> f, status |-> status,
     value |-> value, arg |-> arg, data |-> data, pre |-> pre]

\* buffer lengths explored for layout l
Lens(l) ==
    {n \in 0..(FixedSize(l) + (IF HasTail(l) THEN MaxTail ELSE MaxPad)) :
        n <= MaxShort \/ n >= FixedSize(l) - MaxShort}

\* initial buffer contents: a two-byte pattern repeated (a sentinel fill
\* when both bytes are equal)
InitBuffers(n) ==
    {[i \in 1..n |-> IF i % 2 = 1 THEN a ELSE b] : a, b \in ByteSamples}

Init ==
    /\ layout \in Layouts
    /\ kind \in {"owned", "shared", "exclusive"}
    /\ \E n \in Lens(layout) : storage \in InitBuffers(n)
    /\ initial = storage
    /\ view = "none"
    /\ result = NoResult

Running == result.status # "abort"

Bound == view # "none"

F == FieldOf(layout, view)

\* FieldView::new(storage): binds the storage to the field marker
New(n) ==
    /\ Running
    /\ n \in FieldNames(layout)
    /\ view' = n
    /\ result' = Res("new", n, "ok", 0, 0, <<>>, storage)
    /\ UNCHANGED <<layout, kind, storage, initial>>

Read ==
    /\ Running /\ Bound
    /\ StorageAsRef(kind) /\ ImplReadExt(F.type)
    /\ LET r == ViewRead(storage, F)
       IN result' = Res("read", view, r.status, r.value, 0, <<>>, storage)
    /\ UNCHANGED <<layout, kind, storage, initial, view>>

Write(v) ==
    /\ Running /\ Bound
    /\ StorageAsMut(kind) /\ ImplWriteExt(F.type)
    /\ v \in Values(F.type)
    /\ LET r == ViewWrite(storage, F, v)
       IN /\ storage' = r.storage
          /\ result' = Res("write", view, r.status, 0, v, <<>>, storage)
    /\ UNCHANGED <<layout, kind, initial, view>>

TryRead ==
    /\ Running /\ Bound
    /\ StorageAsRef(kind) /\ ImplCopyAccess(F.type)
    /\ LET r == ViewTryRead(storage, F)
       IN result' = Res("try_read", view, r.status, r.value, 0, <<>>, storage)
    /\ UNCHANGED <<layout, kind, storage, initial, view>>

TryWrite(v) ==
    /\ Running /\ Bound
    /\ StorageAsMut(kind) /\ ImplCopyAccess(F.type)
    /\ v \in Values(F.type)
    /\ LET r == ViewTryWrite(storage, F, v)
       IN /\ storage' = r.storage
          /\ result' = Res("try_write", view, r.status, 0, v, <<>>, storage)
    /\ UNCHANGED <<layout, kind, initial, view>>

TailRead ==
    /\ Running /\ Bound
    /\ StorageAsRef(kind) /\ ImplSliceAccess(F.type)
    /\ LET r == ViewTail(storage, F)
       IN result' = Res("tail", view, r.status, 0, 0, r.data, storage)
    /\ UNCHANGED <<layout, kind, storage, initial, view>>

TailMutCopy(k) ==
    /\ Running /\ Bound
    /\ StorageAsMut(kind) /\ ImplSliceAccess(F.type)
    /\ k \in 0..Len(TailData)
    /\ LET src == SubSeq(TailData, 1, k)
           r == ViewTailMutCopy(storage, F, src)
       IN /\ storage' = r.storage
          /\ result' = Res("tail_mut", view, r.status, 0, k, src, storage)
    /\ UNCHANGED <<layout, kind, initial, view>>

Next ==
    \/ \E n \in FieldNames(layout) : New(n)
    \/ Read
    \/ \E v \in AllValues : Write(v)
    \/ TryRead
    \/ \E v \in AllValues : TryWrite(v)
    \/ TailRead
    \/ \E k \in 0..Len(TailData) : TailMutCopy(k)

Spec == Init /\ [][Next]_vars

----------------------------------------------------------------------------
(* Properties *)

\* the last operation is op and it returned normally with status st
Did(op, st) == result.op = op /\ result.status = st

\* index range of the field the view is bound to, as sequence indices
InField(i) == i > F.offset /\ i <= F.offset + F.size

\* dst with the bytes at offsets [lo, hi) replaced by the first bytes of src
CopyRange(dst, lo, hi, src) ==
    [i \in 1..Len(dst) |-> IF i > lo /\ i <= hi THEN src[i - lo] ELSE dst[i]]

\* C1: round trip of an infallible field: after write(v) on a buffer that
\* holds the field, read() on the same storage returns exactly v.
C1_RoundTripInfallible ==
    Did("write", "ok") =>
        LET r == ViewRead(storage, F)
        IN r.status = "ok" /\ r.value = result.arg

C1_Witness ==
    /\ Did("write", "ok")
    /\ result.arg = -1
    /\ result.pre # storage

\* C2: offset isolation: a write, or a successful try_write, leaves the
\* buffer length unchanged, changes no byte outside
\* [offset, offset + size) and stores the size bytes of the value there.
C2_OffsetIsolation ==
    (Did("write", "ok") \/ Did("try_write", "ok")) =>
        /\ Len(storage) = Len(result.pre)
        /\ \A i \in 1..Len(storage) : ~InField(i) => storage[i] = result.pre[i]
        /\ Slice(storage, F.offset, F.size) = Encode(result.arg, F.type, F.endian)
        /\ Len(Encode(result.arg, F.type, F.endian)) = F.size

C2_Witness ==
    /\ Did("write", "ok")
    /\ F.offset > 0
    /\ Len(storage) > F.offset + F.size
    /\ \A i \in 1..Len(storage) : ~InField(i) => storage[i] = 127
    /\ \E i \in 1..Len(storage) : InField(i) /\ storage[i] # 127

\* C3: byte order: a 2-byte field written with v holds v mod 256 then
\* v div 256 when the layout is little-endian and the reverse when it is
\* big-endian; read decodes with the same order; in my_layout
\* field_one().read() is the little-endian value of bytes 0..2 and
\* something_else_mut().write(10) stores 10, 0, 0, 0 at bytes 18..22.
C3_ByteOrder ==
    /\ (Did("write", "ok") /\ F.type = "u16") =>
          LET lo == storage[F.offset + 1]
              hi == storage[F.offset + 2]
          IN /\ F.endian = "little" =>
                    lo = result.arg % 256 /\ hi = result.arg \div 256
             /\ F.endian = "big" =>
                    lo = result.arg \div 256 /\ hi = result.arg % 256
             /\ (result.arg = 4660 /\ F.endian = "little") => lo = 52 /\ hi = 18
             /\ (result.arg = 4660 /\ F.endian = "big") => lo = 18 /\ hi = 52
    /\ (Did("read", "ok") /\ F.type = "u16") =>
          LET lo == storage[F.offset + 1]
              hi == storage[F.offset + 2]
          IN /\ F.endian = "little" => result.value = lo + 256 * hi
             /\ F.endian = "big" => result.value = 256 * lo + hi
    /\ (Did("read", "ok") /\ layout = "my_layout" /\ view = "field_one") =>
          result.value = storage[1] + 256 * storage[2]
    /\ (Did("write", "ok") /\ layout = "my_layout" /\ view = "something_else"
            /\ result.arg = 10) =>
          storage = CopyRange(result.pre, 18, 22, <<10, 0, 0, 0>>)

C3_Witness ==
    /\ Did("write", "ok")
    /\ F.type = "u16"
    /\ F.endian = "big"
    /\ result.arg = 4660
    /\ Slice(storage, F.offset, 2) = <<18, 52>>

\* C4: domain rejection on read: over a buffer that holds the field,
\* try_read of a non-zero field returns the read error exactly when the
\* bytes of the field decode to zero (all of them are zero), and otherwise
\* Ok with the decoded, non-zero value; it never aborts.
C4_DomainRejection ==
    (result.op = "try_read" /\ InBounds(F, storage)) =>
        LET bs == Slice(storage, F.offset, F.size)
            zero == \A i \in 1..Len(bs) : bs[i] = 0
        IN /\ result.status \in {"ok", "err"}
           /\ result.status = "err" <=> zero
           /\ result.status = "ok" =>
                 /\ result.value # 0
                 /\ result.value = Decode(bs, F.type, F.endian)
                 /\ Encode(result.value, F.type, F.endian) = bs

C4_Witness ==
    /\ Did("try_read", "err")
    /\ InBounds(F, storage)
    /\ F.type = "nz_u16"
    /\ \E i \in 1..Len(storage) : storage[i] # 0

\* C5: round trip of a fallible field: when try_write(v) returns Ok(()),
\* try_read() on the same storage returns Ok(v).
C5_RoundTripFallible ==
    Did("try_write", "ok") =>
        LET r == ViewTryRead(storage, F)
        IN r.status = "ok" /\ r.value = result.arg

C5_Witness ==
    /\ Did("try_write", "ok")
    /\ result.arg = 65280
    /\ F.endian = "big"
    /\ result.pre # storage

C7_BoundsAtAccess ==
    /\ Running => \A n \in FieldNames(layout) : ENABLED New(n)
    /\ result.op = "new" => result.status = "ok"
    /\ result.op \in {"read", "write"} =>
          /\ result.status \in {"ok", "abort"}
          /\ result.status = "abort" <=> Len(result.pre) < F.offset + F.size
          /\ result.status = "abort" => storage = result.pre

C7_Witness ==
    /\ Did("read", "abort")
    /\ Len(storage) < F.offset + F.size
    /\ Len(storage) > F.offset

\* C8: trailing region: with the trailing field at offset O <= L, tail()
\* is the bytes of the buffer at [O, L) (bytes 22.. in my_layout); after k
\* bytes are written through tail_mut()[0..k], a fresh tail() holds them at
\* its first k positions and the former bytes at the others.
C8_TrailingRegion ==
    /\ (result.op = "tail" /\ F.offset <= Len(storage)) =>
          /\ result.status = "ok"
          /\ Len(result.data) = Len(storage) - F.offset
          /\ \A i \in 1..Len(result.data) : result.data[i] = storage[F.offset + i]
          /\ layout = "my_layout" =>
                result.data = SubSeq(storage, 23, Len(storage))
    /\ Did("tail_mut", "ok") =>
          LET t == ViewTail(storage, F)
              k == result.arg
          IN /\ t.status = "ok"
             /\ Len(t.data) = Len(storage) - F.offset
             /\ \A i \in 1..Len(t.data) :
                    t.data[i] = IF i <= k THEN TailData[i]
                                ELSE result.pre[F.offset + i]

C8_Witness ==
    /\ Did("tail_mut", "ok")
    /\ result.arg = 3
    /\ Len(storage) = F.offset + 5
    /\ ViewTail(storage, F).data = <<1, 2, 3, 127, 127>>

\* C9: read-only storage: over a shared borrow no write, try_write or
\* tail_mut is performed and every byte of the buffer keeps its initial
\* value.
C9_ReadOnlyStorage ==
    kind = "shared" =>
        /\ storage = initial
        /\ result.op \notin {"write", "try_write", "tail_mut"}

C9_Witness ==
    /\ kind = "shared"
    /\ Did("read", "ok")
    /\ storage = initial
    /\ Len(storage) > 0

====
